---- MODULE Spec2Model ----
(***************************************************************************)
(* Node discovery, interview and provisioning of the CAN master            *)
(* (rich-edit3.py): the registry CANState.nodes, the inbound queue App.q,  *)
(* the main loop of App.run and the handlers it calls.                     *)
(*                                                                         *)
(* Frames are records [id, data] with data a sequence of bytes; Python's   *)
(* data[k] is data[k + 1] here.  The display-only heartbeat field last_rx  *)
(* and the log are not part of the model.  bus is the population of frames *)
(* the transport may deliver in a session and nrecv the number delivered.  *)
(* selected_idx, which the 'up' and 'down' keys move freely, is drawn when  *)
(* a command reads it.  The clock is only ever compared with the           *)
(* nvs_timestamp of a node in Writing, so it advances only while a write   *)
(* is pending.                                                             *)
(* The variables last, out and discRun record what the latest step did:    *)
(* the operation with the node it addressed and that node's state before   *)
(* it (and whether it processed the same frame as the step before), the    *)
(* frames handed to bus.send, and the number of discovery triggers in a    *)
(* row with no change of the registry between them; the program does not   *)
(* read them.                                                              *)
(* crc16_ccitt is an operator where the handlers call it; the variables    *)
(* crc_pc, crc_data, crc_i, crc_k and crc_reg follow one call of it,       *)
(* statement by statement: the argument, the bytes consumed, the passes of *)
(* the inner loop made for the current byte and the local crc.             *)
(***************************************************************************)
EXTENDS Integers, Sequences, FiniteSets, TLC

VARIABLES nodes, q, pc, now, interaction_active,
          bus, nrecv, last, out, discRun,
          crc_pc, crc_data, crc_i, crc_k, crc_reg

\* the variables of one call of crc16_ccitt
crcvars == <<crc_pc, crc_data, crc_i, crc_k, crc_reg>>

\* the variables of the main loop
loopvars == <<nodes, q, pc, now, interaction_active,
              bus, nrecv, last, out, discRun>>

vars == <<nodes, q, pc, now, interaction_active,
          bus, nrecv, last, out, discRun,
          crc_pc, crc_data, crc_i, crc_k, crc_reg>>

(***************************************************************************)
(* Program constants                                                       *)
(***************************************************************************)
ACK_INTRO_ID == 1024
REQ_NODE_INTRO_ID == 1025
CFG_ERASE_NVS_ID == 1076
CFG_REBOOT_ID == 1077
CFG_WRITE_NVS_ID == 1078
DATA_CONFIG_CRC_ID == 1318
DATA_CFGWRITE_FAILED == 1320
SUBMODULE_STRUCT_SIZE == 16
NODEINFO_STRUCT_SIZE == 136
NVS_TIMEOUT_SECONDS == 5
EMPTY_CONFIG_CRC == 65535
INTRO_RANGE_LO == 1792
INTRO_RANGE_HI == 2047

(***************************************************************************)
(* Bounds                                                                  *)
(***************************************************************************)
MaxRecv == 3
MaxTime == 6
MaxSel == 1

(***************************************************************************)
(* Integer helpers: bitwise operations and struct packing                  *)
(***************************************************************************)
RECURSIVE Xor(_, _)
Xor(a, b) ==
    IF b = 0 THEN a
    ELSE IF a = 0 THEN b
    ELSE ((a + b) % 2) + 2 * Xor(a \div 2, b \div 2)

\* struct.unpack('>I', data[0:4])[0]
U32BE(data) == ((data[1] * 256 + data[2]) * 256 + data[3]) * 256 + data[4]

\* struct.pack('>I', n)
PackU32BE(n) ==
    <<(n \div 16777216) % 256, (n \div 65536) % 256, (n \div 256) % 256, n % 256>>

\* struct.pack('>H', n)
PackU16BE(n) == <<(n \div 256) % 256, n % 256>>

\* (data[5] << 8) | data[6]
Word(hi, lo) == hi * 256 + lo

(***************************************************************************)
(* crc16_ccitt                                                             *)
(***************************************************************************)
\* x ^ w for a single-bit mask w
ToggleBit(x, w) == IF (x \div w) % 2 = 1 THEN x - w ELSE x + w

\* x ^ 0x1021
XorPoly == [x \in 0..131071 |-> ToggleBit(ToggleBit(ToggleBit(x, 1), 32), 4096)]

\* variant: the shift without the polynomial
ShiftBitNoPoly == [c \in 0..65535 |-> (c * 2) % 65536]

\* one pass of the inner loop: shift, conditional xor, mask
ShiftBit ==
    [c \in 0..65535 |-> (IF (c \div 32768) % 2 = 1 THEN XorPoly[c * 2] ELSE c * 2) % 65536]

\* the body of the outer loop for one byte
CrcByte(c, b) ==
    ShiftBit[ShiftBit[ShiftBit[ShiftBit[ShiftBit[ShiftBit[ShiftBit[ShiftBit[
        Xor(c, b * 256)]]]]]]]]

RECURSIVE CrcFrom(_, _, _, _)
CrcFrom(data, i, hi, crc) ==
    IF crc < 0 \/ i > hi THEN crc
    ELSE CrcFrom(data, i + 1, hi, CrcByte(crc, data[i]))

\* the outer loop, walked in runs of 16 bytes
RECURSIVE CrcChunks(_, _, _)
CrcChunks(data, i, crc) ==
    IF crc < 0 \/ i > Len(data) THEN crc
    ELSE CrcChunks(data, i + 16,
                   CrcFrom(data, i, IF i + 15 < Len(data) THEN i + 15 ELSE Len(data), crc))

crc16_ccitt(data, initial) == CrcChunks(data, 1, initial)

(***************************************************************************)
(* CANState                                                                *)
(***************************************************************************)
NoCfg == [some |-> FALSE, bytes |-> <<>>]
NoTelemetry == [some |-> FALSE, id |-> 0, dlc |-> 0, save |-> FALSE]

NewNode ==
    [node_type_msg |-> 0, sub_mod_cnt |-> 0, reported_crc |-> 0, subs |-> <<>>,
     interview_complete |-> FALSE, calculated_crc |-> 0,
     nvs_status |-> "Pending", nvs_timestamp |-> 0]

touch(reg, node_id) ==
    IF node_id \in DOMAIN reg THEN reg ELSE (node_id :> NewNode) @@ reg

\* bytearray operations; BufErr stands for the raised IndexError / struct.error
BufErr == <<-1>>

ZeroBuf(n) == [i \in 1..n |-> 0]

\* buf[off:off+3] = bytes   (a slice assignment resizes the bytearray)
SetSlice3(buf, off, bytes) ==
    IF buf = BufErr THEN BufErr
    ELSE SubSeq(buf, 1, off) \o bytes \o SubSeq(buf, off + 4, Len(buf))

\* buf[off] = v
SetByte(buf, off, v) ==
    IF buf = BufErr \/ off >= Len(buf) \/ v < 0 \/ v > 255 THEN BufErr
    ELSE [buf EXCEPT ![off + 1] = v]

\* struct.pack_into('<H', buf, off, v)
PackIntoU16LE(buf, off, v) ==
    IF buf = BufErr \/ off + 2 > Len(buf) \/ v < 0 \/ v > 65535 THEN BufErr
    ELSE [buf EXCEPT ![off + 1] = v % 256, ![off + 2] = (v \div 256) % 256]

\* struct.pack_into('<I', buf, off, v)
PackIntoU32LE(buf, off, v) ==
    IF buf = BufErr \/ off + 4 > Len(buf) THEN BufErr
    ELSE [buf EXCEPT ![off + 1] = v % 256, ![off + 2] = (v \div 256) % 256,
                     ![off + 3] = (v \div 65536) % 256,
                     ![off + 4] = (v \div 16777216) % 256]

Min(a, b) == IF a < b THEN a ELSE b

\* variant: the slot layout with the ids at +8 and +10, dlc at +13, flag at +14
FillSlotIdsAtEight(buf, nd, i) ==
    LET offset == i * SUBMODULE_STRUCT_SIZE IN
    IF i \notin DOMAIN nd.subs THEN buf
    ELSE LET s  == nd.subs[i]
             b1 == IF s.cfg.some /\ s.cfg.bytes # <<>>
                   THEN SetSlice3(buf, offset, s.cfg.bytes) ELSE buf
             b2 == PackIntoU16LE(b1, offset + 8, s.intro_id)
         IN  IF s.telemetry.some
             THEN SetByte(SetByte(SetByte(
                      PackIntoU16LE(b2, offset + 10, s.telemetry.id),
                      offset + 12, 8), offset + 13, s.telemetry.dlc),
                      offset + 14, IF s.telemetry.save THEN 1 ELSE 0)
             ELSE b2

\* the body of the loop over the submodule slots
FillSlot(buf, nd, i) ==
    LET offset == i * SUBMODULE_STRUCT_SIZE IN
    IF i \notin DOMAIN nd.subs THEN buf
    ELSE LET s  == nd.subs[i]
             b1 == IF s.cfg.some /\ s.cfg.bytes # <<>>
                   THEN SetSlice3(buf, offset, s.cfg.bytes) ELSE buf
             b2 == PackIntoU16LE(b1, offset + 9, s.intro_id)
         IN  IF s.telemetry.some
             THEN SetByte(SetByte(SetByte(
                      PackIntoU16LE(b2, offset + 11, s.telemetry.id),
                      offset + 13, 8), offset + 14, s.telemetry.dlc),
                      offset + 15, IF s.telemetry.save THEN 1 ELSE 0)
             ELSE b2

RECURSIVE FillSlots(_, _, _, _)
FillSlots(buf, nd, i, active_mods) ==
    IF buf = BufErr \/ i >= active_mods THEN buf
    ELSE FillSlots(FillSlot(buf, nd, i), nd, i + 1, active_mods)

\* variant: byte 134 depends on nvs_status
NodeBufferWithStatus(node_id, nd) ==
    LET slots == FillSlots(ZeroBuf(NODEINFO_STRUCT_SIZE), nd, 0, Min(nd.sub_mod_cnt, 8))
        meta  == PackIntoU16LE(PackIntoU32LE(slots, 128, node_id), 132, nd.node_type_msg)
    IN  SetByte(SetByte(meta, 134, IF nd.nvs_status = "Pending" THEN 8 ELSE 9),
                135, nd.sub_mod_cnt)

\* the buffer calculate_node_crc hands to crc16_ccitt
NodeBuffer(node_id, nd) ==
    LET slots == FillSlots(ZeroBuf(NODEINFO_STRUCT_SIZE), nd, 0, Min(nd.sub_mod_cnt, 8))
        meta  == PackIntoU16LE(PackIntoU32LE(slots, 128, node_id), 132, nd.node_type_msg)
    IN  SetByte(SetByte(meta, 134, 8), 135, nd.sub_mod_cnt)

\* -1 stands for the exception raised while the buffer is filled
calculate_node_crc(node_id, nd) ==
    LET buf == NodeBuffer(node_id, nd) IN
    IF buf = BufErr THEN -1 ELSE crc16_ccitt(buf, 65535)

(***************************************************************************)
(* Frames                                                                  *)
(***************************************************************************)
Msg(arb_id, data) == [id |-> arb_id, data |-> data]

NoMsg == Msg(0, <<>>)

\* variant: the identity packed with '<I'
AckMsgLittleEndian(node_id) ==
    Msg(ACK_INTRO_ID,
        <<node_id % 256, (node_id \div 256) % 256, (node_id \div 65536) % 256,
          (node_id \div 16777216) % 256>>)

\* can.Message(arbitration_id=ACK_INTRO_ID, data=struct.pack('>I', node_id))
AckMsg(node_id) == Msg(ACK_INTRO_ID, PackU32BE(node_id))

\* can.Message(arbitration_id=CFG_REBOOT_ID, data=struct.pack('>I', nid))
RebootMsg(nid) == Msg(CFG_REBOOT_ID, PackU32BE(nid))

\* can.Message(arbitration_id=REQ_NODE_INTRO_ID, data=[0]*4)
BroadcastMsg == Msg(REQ_NODE_INTRO_ID, <<0, 0, 0, 0>>)

\* variant: the checksum packed low byte first
WriteMsgCrcLittleEndian(target_id, crc) ==
    Msg(CFG_WRITE_NVS_ID, PackU32BE(target_id) \o <<crc % 256, (crc \div 256) % 256>>)

\* can.Message(arbitration_id=CFG_WRITE_NVS_ID, data=struct.pack('>I H', id, crc))
WriteMsg(target_id, crc) == Msg(CFG_WRITE_NVS_ID, PackU32BE(target_id) \o PackU16BE(crc))

\* can.Message(arbitration_id=CFG_ERASE_NVS_ID, data=struct.pack('>I', target_id))
EraseMsg(target_id) == Msg(CFG_ERASE_NVS_ID, PackU32BE(target_id))

\* can.Message(arbitration_id=new_type,
\*             data=struct.pack('>I B B B B', target_id, mod_idx, pin, 0, 0))
EditMsg(new_type, target_id, mod_idx, pin) ==
    Msg(new_type, PackU32BE(target_id) \o <<mod_idx, pin, 0, 0>>)

(***************************************************************************)
(* App._process_queue: the handling of one dequeued frame                  *)
(***************************************************************************)
\* 0x700 <= arb_id <= 0x7FF and len(data) >= 4
IsIntro(msg) ==
    INTRO_RANGE_LO <= msg.id /\ msg.id <= INTRO_RANGE_HI /\ Len(msg.data) >= 4

NewSub(arb_id) == [cfg |-> NoCfg, telemetry |-> NoTelemetry, intro_id |-> arb_id]

\* variant: the test one index early
CompletionTestOffByOne(idx, sub_mod_cnt) == idx + 2 >= sub_mod_cnt

\* variant: completion on the exact last index only
CompletionTestExact(idx, sub_mod_cnt) == idx + 1 = sub_mod_cnt

\* variant: the count capped at the 8 slots of the buffer
CompletionTestCapped(idx, sub_mod_cnt) == idx + 1 >= Min(sub_mod_cnt, 8)

\* (idx + 1) >= node['sub_mod_cnt']
CompletionTest(idx, sub_mod_cnt) == idx + 1 >= sub_mod_cnt

\* variant: the reported checksum read little-endian
IdentityPartCrcLittleEndian(node, msg) ==
    LET data == msg.data IN
    IF Len(data) < 5 THEN [node |-> node, fault |-> TRUE]
    ELSE LET n1 == [node EXCEPT !.node_type_msg = msg.id, !.sub_mod_cnt = data[5]] IN
         IF Len(data) < 7 THEN [node |-> n1, fault |-> TRUE]
         ELSE [node |-> [n1 EXCEPT !.reported_crc = Word(data[7], data[6])],
               fault |-> FALSE]

\* the branch node['sub_mod_cnt'] == 0; fault: an IndexError left the handler
IdentityPart(node, msg) ==
    LET data == msg.data IN
    IF Len(data) < 5 THEN [node |-> node, fault |-> TRUE]
    ELSE LET n1 == [node EXCEPT !.node_type_msg = msg.id, !.sub_mod_cnt = data[5]] IN
         IF Len(data) < 7 THEN [node |-> n1, fault |-> TRUE]
         ELSE [node |-> [n1 EXCEPT !.reported_crc = Word(data[6], data[7])],
               fault |-> FALSE]

\* the Part B statements once the telemetry dict has been built
StoreTelemetry(node_id, node, idx, data) ==
    LET tel == [some |-> TRUE, id |-> Word(data[6], data[7]),
                dlc |-> data[8] % 16, save |-> data[8] >= 128]
        n2  == [node EXCEPT !.subs[idx].telemetry = tel]
    IN  IF CompletionTest(idx, n2.sub_mod_cnt)
        THEN LET n3  == [n2 EXCEPT !.interview_complete = TRUE]
             IN  CHOOSE r \in {IF crc < 0 THEN [node |-> n3, fault |-> TRUE]
                                ELSE [node |-> [n3 EXCEPT !.calculated_crc = crc],
                                      fault |-> FALSE] :
                                crc \in {calculate_node_crc(node_id, n3)}} : TRUE
        ELSE [node |-> n2, fault |-> FALSE]

\* variant: no test of the index
IndexInRangeAny(idx) == idx < 128

\* if idx < 8:
IndexInRange(idx) == idx < 8

\* variant: the config bytes of a repeated Part A frame accumulate
SubmodulePartAppendsCfg(node_id, node, msg) ==
    LET data == msg.data IN
    IF Len(data) < 5 THEN [node |-> node, fault |-> TRUE]
    ELSE LET idx  == data[5] % 128
             is_b == data[5] >= 128
         IN  IF ~IndexInRange(idx) THEN [node |-> node, fault |-> FALSE]
             ELSE LET n1 == IF idx \in DOMAIN node.subs THEN node
                            ELSE [node EXCEPT !.subs = (idx :> NewSub(msg.id)) @@ node.subs]
                  IN  IF ~is_b
                      THEN [node |-> [n1 EXCEPT !.subs[idx].cfg =
                                         [some |-> TRUE,
                                          bytes |-> n1.subs[idx].cfg.bytes
                                                    \o SubSeq(data, 6, Min(8, Len(data)))]],
                            fault |-> FALSE]
                      ELSE IF Len(data) < 8 THEN [node |-> n1, fault |-> TRUE]
                      ELSE StoreTelemetry(node_id, n1, idx, data)

\* the branch node['sub_mod_cnt'] != 0
SubmodulePart(node_id, node, msg) ==
    LET data == msg.data IN
    IF Len(data) < 5 THEN [node |-> node, fault |-> TRUE]
    ELSE LET idx  == data[5] % 128
             is_b == data[5] >= 128
         IN  IF ~IndexInRange(idx) THEN [node |-> node, fault |-> FALSE]
             ELSE LET n1 == IF idx \in DOMAIN node.subs THEN node
                            ELSE [node EXCEPT !.subs = (idx :> NewSub(msg.id)) @@ node.subs]
                  IN  IF ~is_b
                      THEN [node |-> [n1 EXCEPT !.subs[idx].cfg =
                                         [some |-> TRUE,
                                          bytes |-> SubSeq(data, 6, Min(8, Len(data)))]],
                            fault |-> FALSE]
                      ELSE IF Len(data) < 8 THEN [node |-> n1, fault |-> TRUE]
                      ELSE StoreTelemetry(node_id, n1, idx, data)

\* variant: without the test of interview_complete
IntroFrameIgnoresComplete(reg, msg) ==
    LET node_id == U32BE(msg.data)
        reg1    == touch(reg, node_id)
        node    == reg1[node_id]
        r       == IF node.sub_mod_cnt = 0 THEN IdentityPart(node, msg)
                   ELSE SubmodulePart(node_id, node, msg)
    IN  [nodes |-> [reg1 EXCEPT ![node_id] = r.node],
         out   |-> IF r.fault THEN <<>> ELSE <<AckMsg(node_id)>>,
         fault |-> r.fault]

\* variant: every frame of an interviewing node is read as its identity frame
IntroFrameAlwaysIdentity(reg, msg) ==
    LET node_id == U32BE(msg.data)
        reg1    == touch(reg, node_id)
        node    == reg1[node_id]
    IN  IF node.interview_complete
        THEN [nodes |-> reg1, out |-> <<>>, fault |-> FALSE]
        ELSE LET r == IdentityPart(node, msg)
             IN  [nodes |-> [reg1 EXCEPT ![node_id] = r.node],
                  out   |-> IF r.fault THEN <<>> ELSE <<AckMsg(node_id)>>,
                  fault |-> r.fault]

\* variant: the frame that completes the interview is not answered
IntroFrameNoAckOnComplete(reg, msg) ==
    LET node_id == U32BE(msg.data)
        reg1    == touch(reg, node_id)
        node    == reg1[node_id]
    IN  IF node.interview_complete
        THEN [nodes |-> reg1, out |-> <<>>, fault |-> FALSE]
        ELSE LET r == IF node.sub_mod_cnt = 0 THEN IdentityPart(node, msg)
                      ELSE SubmodulePart(node_id, node, msg)
             IN  [nodes |-> [reg1 EXCEPT ![node_id] = r.node],
                  out   |-> IF r.fault \/ r.node.interview_complete
                            THEN <<>> ELSE <<AckMsg(node_id)>>,
                  fault |-> r.fault]

\* variant: a frame with the Part B bit set is never read as an identity frame
IntroFramePartByTopBit(reg, msg) ==
    LET node_id == U32BE(msg.data)
        reg1    == touch(reg, node_id)
        node    == reg1[node_id]
    IN  IF node.interview_complete
        THEN [nodes |-> reg1, out |-> <<>>, fault |-> FALSE]
        ELSE LET r == IF node.sub_mod_cnt = 0 /\ ~(Len(msg.data) >= 5 /\ msg.data[5] >= 128)
                      THEN IdentityPart(node, msg)
                      ELSE SubmodulePart(node_id, node, msg)
             IN  [nodes |-> [reg1 EXCEPT ![node_id] = r.node],
                  out   |-> IF r.fault THEN <<>> ELSE <<AckMsg(node_id)>>,
                  fault |-> r.fault]

\* lines 227-246
IntroFrame(reg, msg) ==
    LET node_id == U32BE(msg.data)
        reg1    == touch(reg, node_id)
        node    == reg1[node_id]
    IN  IF node.interview_complete
        THEN [nodes |-> reg1, out |-> <<>>, fault |-> FALSE]
        ELSE LET r == IF node.sub_mod_cnt = 0 THEN IdentityPart(node, msg)
                      ELSE SubmodulePart(node_id, node, msg)
             IN  [nodes |-> [reg1 EXCEPT ![node_id] = r.node],
                  out   |-> IF r.fault THEN <<>> ELSE <<AckMsg(node_id)>>,
                  fault |-> r.fault]

\* variant: Success without the Reboot frame
ConfigCrcFrameNoReboot(reg, msg) ==
    IF Len(msg.data) < 4 THEN [nodes |-> reg, out |-> <<>>, fault |-> TRUE]
    ELSE LET nid  == U32BE(msg.data)
             reg1 == touch(reg, nid)
         IN  [nodes |-> [reg1 EXCEPT ![nid].nvs_status = "Success"],
              out   |-> <<>>,
              fault |-> FALSE]

\* variant: the acknowledged commit also restarts the interview of the node
ConfigCrcFrameRestartsInterview(reg, msg) ==
    IF Len(msg.data) < 4 THEN [nodes |-> reg, out |-> <<>>, fault |-> TRUE]
    ELSE LET nid  == U32BE(msg.data)
             reg1 == touch(reg, nid)
         IN  [nodes |-> [reg1 EXCEPT ![nid].nvs_status = "Success",
                                     ![nid].interview_complete = FALSE,
                                     ![nid].sub_mod_cnt = 0],
              out   |-> <<RebootMsg(nid)>>,
              fault |-> FALSE]

\* lines 247-251; struct.unpack raises when data[0:4] has fewer than 4 bytes
ConfigCrcFrame(reg, msg) ==
    IF Len(msg.data) < 4 THEN [nodes |-> reg, out |-> <<>>, fault |-> TRUE]
    ELSE LET nid  == U32BE(msg.data)
             reg1 == touch(reg, nid)
         IN  [nodes |-> [reg1 EXCEPT ![nid].nvs_status = "Success"],
              out   |-> <<RebootMsg(nid)>>,
              fault |-> FALSE]

\* variant: the last branch creates the record of the node it names
HandleMsgOtherTouches(reg, msg) ==
    IF IsIntro(msg) THEN IntroFrame(reg, msg)
    ELSE IF msg.id = DATA_CONFIG_CRC_ID THEN ConfigCrcFrame(reg, msg)
    ELSE IF Len(msg.data) >= 4
         THEN [nodes |-> touch(reg, U32BE(msg.data)), out |-> <<>>, fault |-> FALSE]
         ELSE [nodes |-> reg, out |-> <<>>, fault |-> FALSE]

\* the body of the while loop for one frame
HandleMsg(reg, msg) ==
    IF IsIntro(msg) THEN IntroFrame(reg, msg)
    ELSE IF msg.id = DATA_CONFIG_CRC_ID THEN ConfigCrcFrame(reg, msg)
    ELSE [nodes |-> reg, out |-> <<>>, fault |-> FALSE]

\* variant: >= in place of >
TimedOutAtThreshold(n, t) ==
    n.nvs_status = "Writing" /\ (t - n.nvs_timestamp >= NVS_TIMEOUT_SECONDS)

\* n['nvs_status'] == "Writing..." and (now - n['nvs_timestamp'] > NVS_TIMEOUT_SECONDS)
TimedOut(n, t) == n.nvs_status = "Writing" /\ (t - n.nvs_timestamp > NVS_TIMEOUT_SECONDS)

\* lines 218-222
SweepTimeouts(reg, t) ==
    [nid \in DOMAIN reg |->
        IF TimedOut(reg[nid], t) THEN [reg[nid] EXCEPT !.nvs_status = "Timeout"]
        ELSE reg[nid]]

(***************************************************************************)
(* Operator commands                                                       *)
(***************************************************************************)
\* sorted(self.state.nodes.keys())[k], k counted from 0
RECURSIVE KthSmallest(_, _)
KthSmallest(S, k) ==
    LET m == CHOOSE x \in S : \A y \in S : x <= y IN
    IF k = 0 THEN m ELSE KthSmallest(S \ {m}, k - 1)

\* node_ids[self.selected_idx % len(node_ids)]
TargetId(reg, sel) == KthSmallest(DOMAIN reg, sel % Cardinality(DOMAIN reg))

\* variant: without the EMPTY_CONFIG_CRC clause
NothingToPersistNoSentinel(node) ==
    ~node.interview_complete \/ node.calculated_crc = node.reported_crc

\* variant: without the interview_complete clause
NothingToPersistNoInterviewCheck(node) ==
    node.calculated_crc = node.reported_crc /\ node.reported_crc # EMPTY_CONFIG_CRC

\* variant: a node whose write timed out is never offered a new commit
NothingToPersistAfterTimeout(node) ==
    \/ ~node.interview_complete
    \/ (node.calculated_crc = node.reported_crc /\ node.reported_crc # EMPTY_CONFIG_CRC)
    \/ node.nvs_status = "Timeout"

\* the early return of persist_selected ("No changes to persist.")
NothingToPersist(node) ==
    ~node.interview_complete
    \/ (node.calculated_crc = node.reported_crc /\ node.reported_crc # EMPTY_CONFIG_CRC)

\* variant: a node without submodules is flagged complete
ResetForDiscoveryEmptyIsComplete(n) ==
    [n EXCEPT !.interview_complete = (n.subs = <<>>), !.sub_mod_cnt = 0]

\* key 'b': n['interview_complete'], n['sub_mod_cnt'] = False, 0
ResetForDiscovery(n) == [n EXCEPT !.interview_complete = FALSE, !.sub_mod_cnt = 0]

\* variant: the submodule records survive the erase
ResetForEraseKeepsSubs(n) ==
    [n EXCEPT !.interview_complete = FALSE, !.sub_mod_cnt = 0, !.nvs_status = "Erasing"]

\* erase_selected, under the lock
ResetForErase(n) ==
    [n EXCEPT !.interview_complete = FALSE, !.sub_mod_cnt = 0, !.subs = <<>>,
              !.nvs_status = "Erasing"]

\* edit_module, under the lock
ResetForEdit(n) == [n EXCEPT !.interview_complete = FALSE, !.sub_mod_cnt = 0, !.subs = <<>>]

(***************************************************************************)
(* The frames the bus may deliver                                          *)
(***************************************************************************)
N1Bytes == <<17, 34, 51, 68>>
N2Bytes == <<0, 0, 1, 2>>

\* byte 4 = 1: identity frame declaring one submodule (reported 0x7382), or Part A of 1
FrameI1 == Msg(1792, N1Bytes \o <<1, 115, 130, 0>>)
\* byte 4 = 2: identity frame declaring two submodules (reported 0xFFFF), or Part A of 2
FrameI2 == Msg(1792, N1Bytes \o <<2, 255, 255, 0>>)
\* byte 4 = 0: Part A of submodule 0, or an identity frame declaring no submodule
FrameA0 == Msg(1793, N1Bytes \o <<0, 10, 11, 12>>)
\* byte 4 = 0x80: Part B of submodule 0
FrameB0 == Msg(1793, N1Bytes \o <<128, 5, 16, 136>>)
\* byte 4 = 0x81: Part B of submodule 1
FrameB1 == Msg(1794, N1Bytes \o <<129, 127, 94, 3>>)
\* the second node: identity frame declaring one submodule, and Part B of 0
FrameJ1 == Msg(1792, N2Bytes \o <<1, 0, 7, 0>>)
FrameJB == Msg(1795, N2Bytes \o <<128, 5, 32, 8>>)
\* write-config-ack, write-config-failed and an unrelated id
FrameAck1 == Msg(DATA_CONFIG_CRC_ID, N1Bytes)
FrameAck2 == Msg(DATA_CONFIG_CRC_ID, N2Bytes)
FrameFail1 == Msg(DATA_CFGWRITE_FAILED, N1Bytes)
FrameOther == Msg(291, N1Bytes \o <<1, 2>>)
\* frames shorter than the layout they are parsed under
FrameShort == Msg(1792, N1Bytes)
FrameAckShort == Msg(DATA_CONFIG_CRC_ID, <<17, 34>>)
\* 6 bytes, byte 4 = 1: Part A of submodule 1 with one config byte, or an
\* identity frame cut before the checksum
FrameShortA == Msg(1794, N1Bytes \o <<1, 10>>)
\* 7 bytes, byte 4 = 0x81: Part B of submodule 1 cut before the dlc byte
FrameShortB == Msg(1794, N1Bytes \o <<129, 127, 94>>)
\* byte 4 = 0x89: Part B of index 9
FrameB9 == Msg(1794, N1Bytes \o <<137, 5, 48, 8>>)
\* byte 4 = 9: identity frame declaring nine submodules (reported 0x1234)
FrameI9 == Msg(1792, N1Bytes \o <<9, 18, 52, 0>>)
\* byte 4 = 0x87: Part B of submodule 7, the highest index stored
FrameB7 == Msg(1794, N1Bytes \o <<135, 5, 64, 8>>)
\* Part A of submodule 0 under another arbitration id than its Part B FrameB0
FrameA0x == Msg(1795, N1Bytes \o <<0, 10, 11, 12>>)

\* the populations of the bus: an interview of one node, provisioning of one
\* node, two nodes, malformed or unrelated traffic, an interview with
\* truncated and out-of-range submodule frames, and an interview with a
\* declared count above 8 and the two parts of a submodule under two ids
Scenarios ==
    {{FrameI1, FrameI2, FrameA0, FrameB0, FrameB1},
     {FrameI1, FrameI2, FrameB0, FrameB1, FrameAck1},
     {FrameI1, FrameB0, FrameJ1, FrameJB, FrameAck2},
     {FrameI1, FrameFail1, FrameOther, FrameShort, FrameAckShort},
     {FrameI2, FrameShortA, FrameShortB, FrameB1, FrameB9},
     {FrameI2, FrameI9, FrameB0, FrameA0x, FrameB7, FrameB9}}

\* seconds by which the clock is seen to advance between two steps
TickSteps == {5, 6}

(***************************************************************************)
(* State machine                                                           *)
(***************************************************************************)
\* what a step found for the node it addresses
WasOf(reg, node_id) ==
    IF node_id \in DOMAIN reg
    THEN [known |-> TRUE, complete |-> reg[node_id].interview_complete,
          cnt |-> reg[node_id].sub_mod_cnt, status |-> reg[node_id].nvs_status]
    ELSE [known |-> FALSE, complete |-> FALSE, cnt |-> 0, status |-> "Pending"]

\* asked: the command reached its input(); confirm: the answer let it proceed;
\* again: the frame is the one the step before processed
Op(name, node_id, msg, asked, confirm) ==
    [op |-> name, node |-> node_id, msg |-> msg, asked |-> asked, confirm |-> confirm,
     was |-> WasOf(nodes, node_id),
     again |-> name = "frame" /\ last.op = "frame" /\ last.msg = msg]

\* no call of crc16_ccitt is being followed
CrcIdle ==
    /\ crc_pc = "idle"
    /\ crc_data = <<>>
    /\ crc_i = 0
    /\ crc_k = 0
    /\ crc_reg = 0

Init ==
    /\ nodes = <<>>
    /\ q = <<>>
    /\ pc = "start"
    /\ now = 0
    /\ interaction_active = FALSE
    /\ bus \in Scenarios
    /\ nrecv = 0
    /\ last = [op |-> "init", node |-> -1, msg |-> NoMsg, asked |-> FALSE,
               confirm |-> FALSE,
               was |-> WasOf(<<>>, -1), again |-> FALSE]
    /\ out = <<>>
    /\ discRun = 0
    /\ CrcIdle

Track == discRun' = IF nodes' # nodes THEN 0 ELSE discRun

\* run(): reader.start() and the first discovery broadcast
Start ==
    /\ pc = "start"
    /\ pc' = "pass"
    /\ out' = <<BroadcastMsg>>
    /\ last' = Op("start", -1, NoMsg, FALSE, FALSE)
    /\ UNCHANGED crcvars
    /\ UNCHANGED <<nodes, q, now, interaction_active, bus, nrecv, discRun>>

\* variant: the reader puts the frame at the head of the queue
EnqueueAtHead(queue, msg) == <<msg>> \o queue

\* self.q.put(msg) on a queue.Queue
Enqueue(queue, msg) == Append(queue, msg)

\* _reader_loop: msg = self.bus.recv(); self.q.put(msg)
Recv ==
    /\ pc \in {"pass", "drain"}
    /\ nrecv < MaxRecv
    /\ \E msg \in bus : q' = Enqueue(q, msg)
    /\ nrecv' = nrecv + 1
    /\ UNCHANGED crcvars
    /\ UNCHANGED <<nodes, pc, now, interaction_active, bus, last, out, discRun>>

\* the wall clock time.time()
Tick ==
    /\ pc \in {"pass", "drain"}
    /\ \E nid \in DOMAIN nodes : nodes[nid].nvs_status = "Writing"
    /\ \E d \in TickSteps : now + d <= MaxTime /\ now' = now + d
    /\ UNCHANGED crcvars
    /\ UNCHANGED <<nodes, q, pc, interaction_active, bus, nrecv, last,
                   out, discRun>>

\* _process_queue, lines 218-222: the timeout sweep that opens every pass
Sweep ==
    /\ pc = "pass"
    /\ ~interaction_active
    /\ nodes' = SweepTimeouts(nodes, now)
    /\ pc' = "drain"
    /\ last' = Op("sweep", -1, NoMsg, FALSE, FALSE)
    /\ out' = <<>>
    /\ Track
    /\ UNCHANGED crcvars
    /\ UNCHANGED <<q, now, interaction_active, bus, nrecv>>

\* _process_queue, lines 224-256: one turn of the while loop
ProcessFrame ==
    /\ pc = "drain"
    /\ q # <<>>
    /\ \E r \in {HandleMsg(nodes, Head(q))} :
        /\ nodes' = r.nodes
        /\ out' = r.out
        /\ pc' = IF r.fault THEN "crashed" ELSE "drain"
    /\ q' = Tail(q)
    /\ last' = Op("frame", IF Len(Head(q).data) >= 4 THEN U32BE(Head(q).data) ELSE -1,
                   Head(q), FALSE, FALSE)
    /\ Track
    /\ UNCHANGED crcvars
    /\ UNCHANGED <<now, interaction_active, bus, nrecv>>

\* _get_key returned None, or a key that only changes the display
NoKey ==
    /\ pc = "drain" /\ q = <<>>
    /\ pc' = "pass"
    /\ last' = Op("nokey", -1, NoMsg, FALSE, FALSE)
    /\ out' = <<>>
    /\ UNCHANGED crcvars
    /\ UNCHANGED <<nodes, q, now, interaction_active, bus, nrecv, discRun>>

\* key 'b', lines 460-462
Discovery ==
    /\ pc = "drain" /\ q = <<>>
    /\ nodes' = [nid \in DOMAIN nodes |-> ResetForDiscovery(nodes[nid])]
    /\ out' = <<BroadcastMsg>>
    /\ pc' = "pass"
    /\ last' = Op("discovery", -1, NoMsg, FALSE, FALSE)
    /\ discRun' = IF discRun = 0 THEN 1 ELSE 2
    /\ UNCHANGED crcvars
    /\ UNCHANGED <<q, now, interaction_active, bus, nrecv>>

\* key 'p': persist_selected
Persist ==
    /\ pc = "drain" /\ q = <<>>
    /\ pc' = "pass"
    /\ IF DOMAIN nodes = {}
       THEN /\ interaction_active' = TRUE
            /\ last' = Op("persist", -1, NoMsg, FALSE, FALSE)
            /\ out' = <<>>
            /\ UNCHANGED nodes
       ELSE \E selected_idx \in 0..MaxSel :
            LET target_id == TargetId(nodes, selected_idx)
                node == nodes[target_id]
            IN  /\ UNCHANGED interaction_active
                /\ IF NothingToPersist(node)
                   THEN /\ last' = Op("persist", target_id, NoMsg, FALSE, FALSE)
                        /\ out' = <<>>
                        /\ UNCHANGED nodes
                   ELSE \E confirm \in BOOLEAN :
                        /\ last' = Op("persist", target_id, NoMsg, TRUE, confirm)
                        /\ IF confirm
                           THEN /\ out' = <<WriteMsg(target_id, node.calculated_crc)>>
                                /\ nodes' = [nodes EXCEPT ![target_id].nvs_status = "Writing",
                                                          ![target_id].nvs_timestamp = now]
                           ELSE /\ out' = <<>>
                                /\ UNCHANGED nodes
    /\ Track
    /\ UNCHANGED crcvars
    /\ UNCHANGED <<q, now, bus, nrecv>>

\* key 'x': erase_selected
Erase ==
    /\ pc = "drain" /\ q = <<>>
    /\ pc' = "pass"
    /\ IF DOMAIN nodes = {}
       THEN /\ interaction_active' = TRUE
            /\ last' = Op("erase", -1, NoMsg, FALSE, FALSE)
            /\ out' = <<>>
            /\ UNCHANGED nodes
       ELSE \E selected_idx \in 0..MaxSel :
            LET target_id == TargetId(nodes, selected_idx) IN
            /\ UNCHANGED interaction_active
            /\ \E confirm \in BOOLEAN :
                /\ last' = Op("erase", target_id, NoMsg, TRUE, confirm)
                /\ IF confirm
                   THEN /\ out' = <<EraseMsg(target_id)>>
                        /\ nodes' = [nodes EXCEPT ![target_id] = ResetForErase(@)]
                   ELSE /\ out' = <<>>
                        /\ UNCHANGED nodes
    /\ Track
    /\ UNCHANGED crcvars
    /\ UNCHANGED <<q, now, bus, nrecv>>

\* key 'e': edit_module; parsed is FALSE when an input() could not be converted
Edit ==
    /\ pc = "drain" /\ q = <<>>
    /\ pc' = "pass"
    /\ IF DOMAIN nodes = {}
       THEN /\ interaction_active' = TRUE
            /\ last' = Op("edit", -1, NoMsg, FALSE, FALSE)
            /\ out' = <<>>
            /\ UNCHANGED nodes
       ELSE \E selected_idx \in 0..MaxSel :
            LET target_id == TargetId(nodes, selected_idx) IN
            /\ UNCHANGED interaction_active
            /\ \E parsed \in BOOLEAN :
                /\ last' = Op("edit", target_id, NoMsg, TRUE, parsed)
                /\ IF parsed
                   THEN /\ out' = <<EditMsg(1793, target_id, 0, 4)>>
                        /\ nodes' = [nodes EXCEPT ![target_id] = ResetForEdit(@)]
                   ELSE /\ out' = <<>>
                        /\ UNCHANGED nodes
    /\ Track
    /\ UNCHANGED crcvars
    /\ UNCHANGED <<q, now, bus, nrecv>>

Next ==
    \/ Start
    \/ Recv
    \/ Tick
    \/ Sweep
    \/ ProcessFrame
    \/ NoKey
    \/ Discovery
    \/ Persist
    \/ Erase
    \/ Edit

Spec == Init /\ [][Next]_vars

\* the registry once the frames of the sequence have been processed in order
RECURSIVE RegistryAfter(_, _)
RegistryAfter(reg, frames) ==
    IF frames = <<>> THEN reg
    ELSE RegistryAfter(HandleMsg(reg, Head(frames)).nodes, Tail(frames))

\* a first cycle that recorded Part A of submodule 0 of a node declaring two
FirstCycleFrames == <<FrameI2, FrameA0>>

\* the frames the bus delivers in the second cycle: none of them is a frame
\* of submodule 0
SecondCycleBus == {FrameI2, FrameB1, FrameAck1}

\* the program right after key 'b' has closed the first cycle; nrecv counts the
\* frames of the second cycle
InitSecondCycle ==
    /\ nodes = [nid \in DOMAIN RegistryAfter(<<>>, FirstCycleFrames) |->
                   ResetForDiscovery(RegistryAfter(<<>>, FirstCycleFrames)[nid])]
    /\ q = <<>>
    /\ pc = "pass"
    /\ now = 0
    /\ interaction_active = FALSE
    /\ bus = SecondCycleBus
    /\ nrecv = 0
    /\ last = [op |-> "discovery", node |-> -1, msg |-> NoMsg, asked |-> FALSE,
               confirm |-> FALSE, was |-> WasOf(<<>>, -1), again |-> FALSE]
    /\ out = <<BroadcastMsg>>
    /\ discRun = 1
    /\ CrcIdle

\* the main loop once run() has sent its first broadcast
NextSecondCycle ==
    \/ Recv
    \/ Tick
    \/ Sweep
    \/ ProcessFrame
    \/ NoKey
    \/ Discovery
    \/ Persist
    \/ Erase
    \/ Edit

SpecSecondCycle == InitSecondCycle /\ [][NextSecondCycle]_vars

\* one turn of the while loop in which bus.send (line 246 or 251) raises
\* can.CanError: the record has been written, nothing went out, and the
\* exception, which nothing catches, leaves _process_queue and App.run
SendFails ==
    /\ pc = "drain"
    /\ q # <<>>
    /\ \E r \in {HandleMsg(nodes, Head(q))} :
        /\ ~r.fault
        /\ r.out # <<>>
        /\ nodes' = r.nodes
    /\ out' = <<>>
    /\ pc' = "crashed"
    /\ q' = Tail(q)
    /\ last' = Op("sendfail", U32BE(Head(q).data), Head(q), FALSE, FALSE)
    /\ Track
    /\ UNCHANGED crcvars
    /\ UNCHANGED <<now, interaction_active, bus, nrecv>>

NextUnreliableBus ==
    \/ Next
    \/ SendFails

\* the program on a bus whose send can fail
SpecUnreliableBus == Init /\ [][NextUnreliableBus]_vars

(***************************************************************************)
(* Properties                                                              *)
(***************************************************************************)
\* how a frame reads on the wire
InIntroRange(m) == m.id >= 1792 /\ m.id <= 2047 /\ Len(m.data) >= 4
WireId(m) == SubSeq(m.data, 1, 4)
IsPartB(m) == Len(m.data) >= 5 /\ m.data[5] >= 128
SubIndex(m) == m.data[5] % 128

\* the step is one turn of the frame loop, on Head(q)
ProcessedStep == pc = "drain" /\ q # <<>> /\ q' = Tail(q)
\* the step is the timeout sweep
SweepStep == pc = "pass" /\ pc' = "drain"
\* the step is the handling of a key
KeyStep(name) == pc = "drain" /\ pc' = "pass" /\ last'.op = name

IsCompleteIn(reg, nid) == nid \in DOMAIN reg /\ reg[nid].interview_complete

\* C1 (as amended): interview_complete turns true only while a Part B frame of
\* that node is processed whose index is below 8 and at least sub_mod_cnt - 1,
\* and once true it stays true until discovery, erase or edit resets the node.
C1_CompletesOnlyOnClosingPartB ==
    [][\A nid \in DOMAIN nodes' :
        /\ (~IsCompleteIn(nodes, nid) /\ nodes'[nid].interview_complete) =>
              /\ ProcessedStep
              /\ InIntroRange(Head(q)) /\ U32BE(Head(q).data) = nid
              /\ nid \in DOMAIN nodes /\ nodes[nid].sub_mod_cnt # 0
              /\ IsPartB(Head(q))
              /\ SubIndex(Head(q)) < 8
              /\ SubIndex(Head(q)) >= nodes[nid].sub_mod_cnt - 1
        /\ (IsCompleteIn(nodes, nid) /\ ~nodes'[nid].interview_complete) =>
              last'.op \in {"discovery", "erase", "edit"}]_vars

\* C1 as stated: the completing Part B frame has index = sub_mod_cnt - 1.
C1_CompletesOnlyOnExactIndex ==
    [][\A nid \in DOMAIN nodes' :
        /\ (~IsCompleteIn(nodes, nid) /\ nodes'[nid].interview_complete) =>
              /\ ProcessedStep
              /\ InIntroRange(Head(q)) /\ U32BE(Head(q).data) = nid
              /\ nid \in DOMAIN nodes /\ nodes[nid].sub_mod_cnt # 0
              /\ IsPartB(Head(q))
              /\ SubIndex(Head(q)) = nodes[nid].sub_mod_cnt - 1
        /\ (IsCompleteIn(nodes, nid) /\ ~nodes'[nid].interview_complete) =>
              last'.op \in {"discovery", "erase", "edit"}]_vars

\* a Part B frame with an index above sub_mod_cnt - 1 has just completed a node
C1_Witness ==
    /\ last.op = "frame" /\ InIntroRange(last.msg) /\ IsPartB(last.msg)
    /\ ~last.was.complete /\ last.was.cnt # 0
    /\ SubIndex(last.msg) > last.was.cnt - 1
    /\ IsCompleteIn(nodes, last.node)

\* C2: an identity-range frame handled without fault for a node that is not
\* complete is answered by exactly one frame on the ack id carrying the four
\* identity bytes of the frame; for a complete node nothing is sent.
C2_OneAckWhileInterviewing ==
    (last.op = "frame" /\ InIntroRange(last.msg) /\ pc # "crashed") =>
        IF last.was.complete THEN out = <<>>
        ELSE out = <<[id |-> 1024, data |-> WireId(last.msg)]>>

C2_Witness ==
    /\ last.op = "frame" /\ InIntroRange(last.msg) /\ pc # "crashed"
    /\ last.was.known /\ ~last.was.complete /\ last.was.cnt # 0
    /\ out = <<[id |-> 1024, data |-> <<17, 34, 51, 68>>]>>

\* C3: a commit on a complete node sends the write-config frame and enters
\* Writing exactly when calculated_crc # reported_crc or reported_crc = 0xFFFF
\* (the operator is then asked, and the frame goes out on the answer y);
\* otherwise the operator is not asked, nothing is sent and nvs_status stays.
C3_CommitGuard ==
    (last.op = "persist" /\ last.node \in DOMAIN nodes /\ last.was.complete) =>
        LET n == nodes[last.node]
            differs == n.calculated_crc # n.reported_crc \/ n.reported_crc = 65535
        IN  IF differs
            THEN /\ last.asked
                 /\ IF last.confirm
                    THEN /\ Len(out) = 1 /\ out[1].id = 1078
                         /\ n.nvs_status = "Writing"
                    ELSE out = <<>> /\ n.nvs_status = last.was.status
            ELSE ~last.asked /\ out = <<>> /\ n.nvs_status = last.was.status

\* a commit went out for a node whose checksums agree on the sentinel
C3_Witness ==
    /\ last.op = "persist" /\ last.node \in DOMAIN nodes /\ last.was.complete
    /\ last.confirm /\ Len(out) = 1 /\ out[1].id = 1078
    /\ nodes[last.node].calculated_crc = 65535
    /\ nodes[last.node].reported_crc = 65535

\* C4: a commit on a node that is not complete sends nothing and leaves
\* nvs_status and nvs_timestamp as they were.
C4_NoCommitBeforeComplete ==
    [][(KeyStep("persist") /\ last'.node \in DOMAIN nodes
            /\ ~nodes[last'.node].interview_complete) =>
          /\ out' = <<>>
          /\ nodes'[last'.node].nvs_status = nodes[last'.node].nvs_status
          /\ nodes'[last'.node].nvs_timestamp = nodes[last'.node].nvs_timestamp]_vars

\* the commit addressed a node that a reset had taken back from complete, its
\* stale calculated_crc differing from reported_crc
C4_Witness ==
    /\ last.op = "persist" /\ last.node \in DOMAIN nodes
    /\ ~last.was.complete /\ out = <<>>
    /\ nodes[last.node].calculated_crc # 0
    /\ nodes[last.node].calculated_crc # nodes[last.node].reported_crc

\* C5: a write-config-ack frame for a node in Writing sets Success and sends
\* exactly one Reboot frame carrying the identity bytes of the ack.
C5_AckWhileWritingReboots ==
    (last.op = "frame" /\ last.msg.id = 1318 /\ last.was.known
        /\ last.was.status = "Writing") =>
        /\ nodes[last.node].nvs_status = "Success"
        /\ out = <<[id |-> 1077, data |-> WireId(last.msg)]>>

C5_Witness ==
    /\ last.op = "frame" /\ last.msg.id = 1318 /\ last.was.known
    /\ last.was.status = "Writing"
    /\ nodes[last.node].nvs_status = "Success"

\* C6: the sweep moves a node in Writing to Timeout when more than 5 seconds
\* have passed since nvs_timestamp, whatever the queue holds, and leaves it in
\* Writing otherwise.
C6_SweepTimesOut ==
    [][SweepStep =>
        \A nid \in DOMAIN nodes :
            nodes[nid].nvs_status = "Writing" =>
                nodes'[nid].nvs_status =
                    IF now - nodes[nid].nvs_timestamp > 5 THEN "Timeout" ELSE "Writing"]_vars

\* a sweep over an empty queue has left a node in Timeout
C6_Witness ==
    /\ last.op = "sweep" /\ q = <<>>
    /\ \E nid \in DOMAIN nodes :
          /\ nodes[nid].nvs_status = "Timeout"
          /\ now - nodes[nid].nvs_timestamp > 5

\* C7 as stated: an identity frame declaring no submodule completes the node.
C7_ZeroCountCompletes ==
    (last.op = "frame" /\ InIntroRange(last.msg) /\ Len(last.msg.data) >= 7
        /\ ~last.was.complete /\ last.was.cnt = 0 /\ last.msg.data[5] = 0) =>
        IsCompleteIn(nodes, last.node)

\* C8 as stated: once Part B of an index is recorded, processing its Part A
\* leaves a record that holds the 3 config bytes as well.
C8_PartAAfterPartBMerges ==
    (last.op = "frame" /\ InIntroRange(last.msg) /\ Len(last.msg.data) = 8
        /\ last.msg.data[5] < 8 /\ last.was.known
        /\ (last.was.cnt # 0 \/ last.was.complete)
        /\ last.msg.data[5] \in DOMAIN nodes[last.node].subs
        /\ nodes[last.node].subs[last.msg.data[5]].telemetry.some) =>
        nodes[last.node].subs[last.msg.data[5]].cfg =
            [some |-> TRUE, bytes |-> SubSeq(last.msg.data, 6, 8)]

\* C9 as stated: discovery leaves every node with count 0, no submodule and
\* not complete.
C9_DiscoveryClearsInterview ==
    last.op = "discovery" =>
        \A nid \in DOMAIN nodes :
            /\ nodes[nid].sub_mod_cnt = 0
            /\ nodes[nid].subs = <<>>
            /\ ~nodes[nid].interview_complete

\* C10: every discovery trigger sends one broadcast of 4 zero bytes, leaves
\* every node not complete and returns to the loop; a trigger that follows
\* another with no change of the registry between them leaves the registry as
\* it was.
C10_DiscoveryIdempotent ==
    [][KeyStep("discovery") =>
        /\ out' = <<[id |-> 1025, data |-> <<0, 0, 0, 0>>]>>
        /\ DOMAIN nodes' = DOMAIN nodes
        /\ \A nid \in DOMAIN nodes' : ~nodes'[nid].interview_complete
        /\ (discRun >= 1 => nodes' = nodes)]_vars

\* the second of two triggers in a row, with a node that has no submodule
C10_Witness ==
    /\ last.op = "discovery" /\ discRun = 2
    /\ \E nid \in DOMAIN nodes : nodes[nid].subs = <<>>

\* C11: a confirmed erase sends exactly one erase frame whose payload is the
\* 4 identity bytes of the selected node, leaves that node with count 0, no
\* submodule, not complete and in Erasing, and leaves every other node's
\* record as it was.
C11_EraseResetsOneNode ==
    [][(KeyStep("erase") /\ last'.confirm) =>
        LET t == last'.node IN
        /\ t \in DOMAIN nodes /\ DOMAIN nodes' = DOMAIN nodes
        /\ Len(out') = 1 /\ out'[1].id = 1076
        /\ Len(out'[1].data) = 4 /\ U32BE(out'[1].data) = t
        /\ nodes'[t].sub_mod_cnt = 0
        /\ nodes'[t].subs = <<>>
        /\ ~nodes'[t].interview_complete
        /\ nodes'[t].nvs_status = "Erasing"
        /\ \A o \in DOMAIN nodes \ {t} : nodes'[o] = nodes[o]]_vars

\* an erase of a complete node, with a second node in the registry
C11_Witness ==
    /\ last.op = "erase" /\ last.confirm /\ last.was.complete
    /\ Cardinality(DOMAIN nodes) = 2
    /\ nodes[last.node].nvs_status = "Erasing"

\* C12 as stated: a write-config-failed frame for a known node leaves that
\* node in Failed and sends no Reboot frame.
C12_FailedFrameSetsFailed ==
    (last.op = "frame" /\ last.msg.id = 1320 /\ Len(last.msg.data) >= 4
        /\ last.was.known) =>
        /\ nodes[last.node].nvs_status = "Failed"
        /\ out = <<>>

\* C13 as stated: in every state, the calculated_crc of every complete node is
\* the result of calculate_node_crc over the node's current record.
C13_StoredChecksumIsCurrent ==
    \A nid \in DOMAIN nodes :
        nodes[nid].interview_complete =>
            nodes[nid].calculated_crc = calculate_node_crc(nid, nodes[nid])

\* a record that carries nothing but the inputs of the checksum
ChecksumInputs(nd) ==
    [node_type_msg |-> nd.node_type_msg, sub_mod_cnt |-> nd.sub_mod_cnt,
     subs |-> nd.subs,
     reported_crc |-> 0, interview_complete |-> FALSE, calculated_crc |-> 0,
     nvs_status |-> "Pending", nvs_timestamp |-> 0]

\* C14: the checksum stored when an interview completes is the checksum of a
\* record that carries only the identity frame id, the declared count and the
\* submodule map, computed for the same identity: reported_crc, nvs_status,
\* nvs_timestamp, the other nodes and the history of the registry do not
\* enter it.
C14_ChecksumReadsOnlyItsInputs ==
    [][\A nid \in DOMAIN nodes' :
        (~IsCompleteIn(nodes, nid) /\ nodes'[nid].interview_complete
            /\ pc' # "crashed") =>
            nodes'[nid].calculated_crc =
                calculate_node_crc(nid, ChecksumInputs(nodes'[nid]))]_vars

\* an interview completed on a node whose provisioning state is not the
\* initial one
C14_Witness ==
    /\ last.op = "frame" /\ ~last.was.complete /\ pc # "crashed"
    /\ IsCompleteIn(nodes, last.node)
    /\ nodes[last.node].nvs_status # "Pending"
    /\ nodes[last.node].reported_crc # 0

\* the layout of the metadata block of a buffer b built for node nid
MetadataLayout(b, nid, nd) ==
    /\ Len(b) = 136
    /\ b[129] = nid % 256 /\ b[130] = (nid \div 256) % 256
    /\ b[131] = (nid \div 65536) % 256 /\ b[132] = (nid \div 16777216) % 256
    /\ b[133] = nd.node_type_msg % 256 /\ b[134] = nd.node_type_msg \div 256
    /\ b[135] = 8
    /\ b[136] = nd.sub_mod_cnt
    /\ (nd.subs = <<>> => \A k \in 1..128 : b[k] = 0)

\* C15 as stated: for every node of the registry the buffer built by
\* calculate_node_crc has exactly 136 bytes, the identity little-endian at
\* 128..131, the identity frame id little-endian at 132..133, 8 at 134 and the
\* declared count at 135, and bytes 0..127 are zero when the node has no
\* submodule.
C15_BufferLayout ==
    \A nid \in DOMAIN nodes :
        \A b \in {NodeBuffer(nid, nodes[nid])} : MetadataLayout(b, nid, nodes[nid])

\* byte k of the slot of submodule i in buffer b
SlotByte(b, i, k) == b[16 * i + k + 1]

\* the 3 config bytes of a record, zero where it has none
CfgByte(sub, k) ==
    IF sub.cfg.some /\ Len(sub.cfg.bytes) >= k THEN sub.cfg.bytes[k] ELSE 0

\* the slot of submodule i as the program lays it out
SlotAsBuilt(b, i, sub) ==
    /\ \A k \in 1..3 : SlotByte(b, i, k - 1) = CfgByte(sub, k)
    /\ \A k \in 3..8 : SlotByte(b, i, k) = 0
    /\ SlotByte(b, i, 9) = sub.intro_id % 256
    /\ SlotByte(b, i, 10) = sub.intro_id \div 256
    /\ SlotByte(b, i, 11) = sub.telemetry.id % 256
    /\ SlotByte(b, i, 12) = sub.telemetry.id \div 256
    /\ SlotByte(b, i, 13) = (IF sub.telemetry.some THEN 8 ELSE 0)
    /\ SlotByte(b, i, 14) = sub.telemetry.dlc
    /\ SlotByte(b, i, 15) = (IF sub.telemetry.save THEN 1 ELSE 0)

\* the slot of submodule i as the specification lays it out
SlotAsSpecified(b, i, sub) ==
    /\ \A k \in 1..3 : SlotByte(b, i, k - 1) = CfgByte(sub, k)
    /\ \A k \in 3..7 : SlotByte(b, i, k) = 0
    /\ SlotByte(b, i, 8) = sub.intro_id % 256
    /\ SlotByte(b, i, 9) = sub.intro_id \div 256
    /\ SlotByte(b, i, 10) = sub.telemetry.id % 256
    /\ SlotByte(b, i, 11) = sub.telemetry.id \div 256
    /\ SlotByte(b, i, 13) = sub.telemetry.dlc
    /\ SlotByte(b, i, 14) = (IF sub.telemetry.save THEN 1 ELSE 0)
    /\ SlotByte(b, i, 15) = 0

RecordBefore(nid) == IF nid \in DOMAIN nodes THEN nodes[nid] ELSE NewNode

\* frame m is shorter than the layout expected for a node in state nd
TooShortFor(m, nd) ==
    ~nd.interview_complete
    /\ \/ (nd.sub_mod_cnt = 0 /\ Len(m.data) < 7)
       \/ (nd.sub_mod_cnt # 0 /\ Len(m.data) < 8)

\* C17 as stated: an identity-range frame too short for the layout expected
\* for its node changes none of count, reported checksum, submodule map and
\* completion flag of the node, and no acknowledgement is sent.
C17_ShortFrameDropped ==
    [][(ProcessedStep /\ InIntroRange(Head(q))
            /\ TooShortFor(Head(q), RecordBefore(U32BE(Head(q).data)))) =>
        LET nid == U32BE(Head(q).data)
            old == RecordBefore(nid)
        IN  /\ out' = <<>>
            /\ nodes'[nid].sub_mod_cnt = old.sub_mod_cnt
            /\ nodes'[nid].reported_crc = old.reported_crc
            /\ nodes'[nid].subs = old.subs
            /\ nodes'[nid].interview_complete = old.interview_complete]_vars

\* C18: every key of every submodule map lies in 0..7, and a submodule frame
\* whose 7-bit index is 8 or more leaves the registry as it was: no entry
\* created, none modified, the interview not completed.
C18_IndicesBelowEight ==
    [][/\ \A nid \in DOMAIN nodes' : DOMAIN nodes'[nid].subs \subseteq 0..7
       /\ (ProcessedStep /\ InIntroRange(Head(q)) /\ Len(Head(q).data) >= 5
              /\ SubIndex(Head(q)) >= 8
              /\ RecordBefore(U32BE(Head(q).data)).sub_mod_cnt # 0) =>
              nodes' = nodes]_vars

\* a Part B frame of index 9 was processed for a node under interview
C18_Witness ==
    /\ last.op = "frame" /\ InIntroRange(last.msg) /\ IsPartB(last.msg)
    /\ SubIndex(last.msg) = 9
    /\ last.was.cnt # 0 /\ ~last.was.complete
    /\ ~nodes[last.node].interview_complete
    /\ pc # "crashed"

\* C19: an identity-range frame for a complete node leaves the node's record
\* (count, reported checksum, identity frame id, submodule map, computed
\* checksum, completion flag) and the rest of the registry as they were.
C19_CompleteNodeIgnoresFrames ==
    [][(ProcessedStep /\ InIntroRange(Head(q))
            /\ IsCompleteIn(nodes, U32BE(Head(q).data))) =>
        nodes' = nodes]_vars

\* a Part A frame of a recorded index was processed for a complete node
C19_Witness ==
    /\ last.op = "frame" /\ InIntroRange(last.msg) /\ last.was.complete
    /\ Len(last.msg.data) = 8 /\ last.msg.data[5] < 8
    /\ nodes[last.node].interview_complete
    /\ nodes[last.node].calculated_crc # 0

\* the operations whose writes to a node record sit inside
\* 'with self.state.lock:' (sweep: line 219, erase: 374, edit: 285); the frame
\* loop takes the lock only inside touch, persist and key 'b' never take it
WritesUnderLock(op) == op \in {"sweep", "erase", "edit"}

\* C20 as stated: every step that changes a field of a node record makes the
\* change while the registry lock is held.
C20_MutationsUnderLock ==
    [][\A nid \in DOMAIN nodes' :
        nodes'[nid] # RecordBefore(nid) => WritesUnderLock(last'.op)]_vars

\* C21 as stated: when the send of an acknowledgement or of a Reboot frame
\* fails, what the frame wrote to the registry stays written and the loop goes
\* on with the frames queued behind it.
C21_SendFailureNotFatal ==
    [][(pc = "drain" /\ q # <<>> /\ q' = Tail(q) /\ last'.op = "sendfail") =>
        /\ nodes' = HandleMsg(nodes, Head(q)).nodes
        /\ pc' = "drain"]_vars

\* C22: the queue changes only by a frame of the bus joining it at the tail,
\* with the registry and the outbound frames untouched, or by the frame at its
\* head being processed, the registry taking the effect of that frame; so the
\* frames are processed in the order the reader received them, whatever the
\* interleaving of the reader with the loop.
C22_ProcessedInArrivalOrder ==
    [][q' # q =>
        \/ /\ \E m \in bus : q' = Append(q, m)
           /\ nodes' = nodes /\ out' = out /\ last' = last
        \/ /\ q # <<>> /\ q' = Tail(q)
           /\ last'.op = "frame" /\ last'.msg = Head(q)
           /\ \E r \in {HandleMsg(nodes, Head(q))} :
                 nodes' = r.nodes /\ out' = r.out]_vars

\* a frame was processed while two different frames, received after it, wait
C22_Witness ==
    /\ last.op = "frame"
    /\ Len(q) >= 2 /\ q[1] # q[2]
    /\ last.msg # q[1] /\ last.msg # q[2]
    /\ nodes # <<>>

\* C23 as stated: whatever frame was processed, the frame loop has not raised.
C23_NoFrameIsFatal ==
    last.op = "frame" => pc # "crashed"

\* C24: a commit that passes its guard and is answered y sends exactly one
\* frame on the write-config id whose 6 bytes are the identity big-endian then
\* calculated_crc big-endian, sets nvs_status to Writing and nvs_timestamp to
\* the time of the command, and changes nothing else in the registry.
C24_CommitFrameAndState ==
    [][(KeyStep("persist") /\ last'.confirm) =>
        LET t == last'.node IN
        /\ t \in DOMAIN nodes
        /\ Len(out') = 1 /\ out'[1].id = 1078 /\ Len(out'[1].data) = 6
        /\ U32BE(out'[1].data) = t
        /\ out'[1].data[5] * 256 + out'[1].data[6] = nodes[t].calculated_crc
        /\ nodes' = [nodes EXCEPT ![t].nvs_status = "Writing",
                                  ![t].nvs_timestamp = now]]_vars

\* a commit sent at a time after 0, the two checksum bytes being different
C24_Witness ==
    /\ last.op = "persist" /\ last.confirm
    /\ Len(out) = 1 /\ out[1].id = 1078
    /\ out[1].data[5] # out[1].data[6]
    /\ nodes[last.node].nvs_timestamp > 0
    /\ nodes[last.node].nvs_timestamp = now

\* C25 as stated: in a cycle whose frames never mention submodule 0, a node
\* that completes its interview holds no record of submodule 0, as a registry
\* built from the frames of that cycle alone would not.
C25_NothingSurvivesDiscovery ==
    \A nid \in DOMAIN nodes :
        (nodes[nid].interview_complete /\ pc # "crashed") =>
            0 \notin DOMAIN nodes[nid].subs

\* C26 as stated: a Reboot frame is sent only while a write-config-ack is
\* processed for a node that was known and in Writing.
C26_RebootOnlyAfterWriting ==
    (last.op = "frame" /\ \E i \in DOMAIN out : out[i].id = CFG_REBOOT_ID) =>
        /\ last.msg.id = DATA_CONFIG_CRC_ID
        /\ last.was.known
        /\ last.was.status = "Writing"

\* the frame is a Part B frame of node nid whose index is in range and at or
\* above sub_mod_cnt - 1, read by the submodule branch
ClosingPartB(m, nid) ==
    /\ InIntroRange(m) /\ U32BE(m.data) = nid
    /\ nid \in DOMAIN nodes /\ nodes[nid].sub_mod_cnt # 0
    /\ IsPartB(m)
    /\ SubIndex(m) < 8
    /\ SubIndex(m) + 1 >= nodes[nid].sub_mod_cnt

\* some index below sub_mod_cnt has no Part A or no Part B on record
HasGap(nd) ==
    \E i \in 0..(nd.sub_mod_cnt - 1) :
        \/ i \notin DOMAIN nd.subs
        \/ ~nd.subs[i].cfg.some
        \/ ~nd.subs[i].telemetry.some

\* C27: while a frame is processed without fault, a node that was not complete
\* becomes complete exactly when the frame is a Part B frame of that node with
\* an index below 8 and index + 1 >= sub_mod_cnt, whatever the other indices
\* hold; no other step of the program completes a node.
C27_CompletionKeysOffPartB ==
    [][\A nid \in DOMAIN nodes' :
        ~IsCompleteIn(nodes, nid) =>
            IF ProcessedStep /\ pc' # "crashed"
            THEN nodes'[nid].interview_complete <=> ClosingPartB(Head(q), nid)
            ELSE nodes'[nid].interview_complete => ClosingPartB(Head(q), nid)]_vars

\* a Part B frame has completed a node that lacks Part A or Part B of some
\* index below sub_mod_cnt
C27_Witness ==
    /\ last.op = "frame" /\ IsPartB(last.msg) /\ pc # "crashed"
    /\ ~last.was.complete
    /\ IsCompleteIn(nodes, last.node)
    /\ HasGap(nodes[last.node])

\* C28: while sub_mod_cnt of a node is non-zero, no step other than discovery,
\* erase and edit changes sub_mod_cnt, reported_crc or node_type_msg.
C28_IdentityWrittenOnce ==
    [][\A nid \in DOMAIN nodes :
        (/\ nodes[nid].sub_mod_cnt # 0
         /\ \/ nodes'[nid].sub_mod_cnt # nodes[nid].sub_mod_cnt
            \/ nodes'[nid].reported_crc # nodes[nid].reported_crc
            \/ nodes'[nid].node_type_msg # nodes[nid].node_type_msg) =>
            last'.op \in {"discovery", "erase", "edit"}]_vars

\* a frame shaped like another identity frame (other count byte, other id) has
\* been processed for an interviewing node whose count was already set
C28_Witness ==
    /\ last.op = "frame" /\ InIntroRange(last.msg) /\ pc # "crashed"
    /\ last.was.known /\ last.was.cnt # 0 /\ ~last.was.complete
    /\ Len(last.msg.data) = 8
    /\ last.msg.data[5] # 0
    /\ last.msg.data[5] # nodes[last.node].sub_mod_cnt
    /\ Word(last.msg.data[6], last.msg.data[7]) # nodes[last.node].reported_crc
    /\ nodes[last.node].sub_mod_cnt = last.was.cnt

\* C29 as stated: in the buffer built for a complete node, byte 12 of the slot
\* of every recorded submodule below min(count, 8) is 8, and for a submodule
\* without telemetry bytes 10, 11, 13 and 14 of its slot are zero.
C29_IntroLengthAlwaysEight ==
    \A nid \in DOMAIN nodes :
        nodes[nid].interview_complete =>
            \A b \in {NodeBuffer(nid, nodes[nid])} :
                b # BufErr =>
                    \A i \in DOMAIN nodes[nid].subs :
                        i < Min(nodes[nid].sub_mod_cnt, 8) =>
                            /\ SlotByte(b, i, 12) = 8
                            /\ ~nodes[nid].subs[i].telemetry.some =>
                                   \A k \in {10, 11, 13, 14} : SlotByte(b, i, k) = 0

(***************************************************************************)
(* One call of crc16_ccitt, statement by statement                          *)
(***************************************************************************)
MaxCrcLen == 3

\* byte values of the arguments: both ends of the range, the top and bottom
\* bit alone, and an ASCII digit
CrcBytes == {0, 1, 49, 128, 255}

\* b"123456789"
CheckVector == <<49, 50, 51, 52, 53, 54, 55, 56, 57>>

\* the arguments data: bytes of the calls followed
CrcInputs ==
    UNION {[1..n -> CrcBytes] : n \in 0..MaxCrcLen} \cup {CheckVector}

\* the call crc16_ccitt(data) with the default initial value, after crc = initial
InitCrc ==
    /\ nodes = <<>>
    /\ q = <<>>
    /\ pc = "start"
    /\ now = 0
    /\ interaction_active = FALSE
    /\ bus = {}
    /\ nrecv = 0
    /\ last = [op |-> "init", node |-> -1, msg |-> NoMsg, asked |-> FALSE,
               confirm |-> FALSE,
               was |-> WasOf(<<>>, -1), again |-> FALSE]
    /\ out = <<>>
    /\ discRun = 0
    /\ crc_pc = "loop"
    /\ crc_data \in CrcInputs
    /\ crc_i = 0
    /\ crc_k = 8
    /\ crc_reg = 65535

\* for byte in data: crc ^= (byte << 8)
XorByte ==
    /\ crc_pc = "loop"
    /\ crc_k = 8
    /\ crc_i < Len(crc_data)
    /\ crc_reg' = Xor(crc_reg, crc_data[crc_i + 1] * 256)
    /\ crc_i' = crc_i + 1
    /\ crc_k' = 0
    /\ UNCHANGED <<crc_pc, crc_data>>
    /\ UNCHANGED loopvars

\* one pass of for _ in range(8), lines 64-68
ShiftStep ==
    /\ crc_pc = "loop"
    /\ crc_k < 8
    /\ crc_reg' = ShiftBit[crc_reg]
    /\ crc_k' = crc_k + 1
    /\ UNCHANGED <<crc_pc, crc_data, crc_i>>
    /\ UNCHANGED loopvars

\* return crc
Return ==
    /\ crc_pc = "loop"
    /\ crc_k = 8
    /\ crc_i = Len(crc_data)
    /\ crc_pc' = "done"
    /\ UNCHANGED <<crc_data, crc_i, crc_k, crc_reg>>
    /\ UNCHANGED loopvars

NextCrc ==
    \/ XorByte
    \/ ShiftStep
    \/ Return

SpecCrc == InitCrc /\ [][NextCrc]_vars

\* the same register kept as a 16-bit value: the top bit is dropped before
\* the shift in place of the mask after it
RefShift(r) == IF r >= 32768 THEN Xor((r - 32768) * 2, 4129) ELSE r * 2

RECURSIVE RefShifts(_, _)
RefShifts(r, n) == IF r < 0 \/ n = 0 THEN r ELSE RefShifts(RefShift(r), n - 1)

RECURSIVE RefCrcFrom(_, _, _)
RefCrcFrom(data, i, r) ==
    IF r < 0 \/ i > Len(data) THEN r
    ELSE RefCrcFrom(data, i + 1, RefShifts(Xor(r, data[i] * 256), 8))

RefCrc(data) == RefCrcFrom(data, 1, 65535)

KeyOf(m) == m.data[1] * 16777216 + m.data[2] * 65536 + m.data[3] * 256 + m.data[4]

\* C31: after a frame of 7 bytes or more in the identity range has been
\* processed for a node that was unknown or had sub_mod_cnt 0, the record
\* keyed by payload bytes 0-3 read big-endian holds the frame's arbitration id
\* as node_type_msg, payload byte 4 as sub_mod_cnt and byte 5 * 256 + byte 6
\* as reported_crc.
C31_IdentityFrameFields ==
    (/\ last.op = "frame" /\ InIntroRange(last.msg) /\ Len(last.msg.data) >= 7
     /\ ~last.was.complete /\ last.was.cnt = 0) =>
        /\ KeyOf(last.msg) \in DOMAIN nodes
        /\ nodes[KeyOf(last.msg)].node_type_msg = last.msg.id
        /\ nodes[KeyOf(last.msg)].sub_mod_cnt = last.msg.data[5]
        /\ nodes[KeyOf(last.msg)].reported_crc = last.msg.data[6] * 256 + last.msg.data[7]

\* the identity frame of the second node (key 258, reported 0x0007) has
\* created its record beside the first node's
C31_Witness ==
    /\ last.op = "frame" /\ last.msg = FrameJ1 /\ ~last.was.known
    /\ 258 \in DOMAIN nodes
    /\ nodes[258].reported_crc = 7
    /\ Cardinality(DOMAIN nodes) = 2

\* the frame is dispatched to none of the handlers of the core
IsForeign(m) ==
    /\ ~(m.id >= 1792 /\ m.id <= 2047)
    /\ m.id # DATA_CONFIG_CRC_ID
    /\ m.id # DATA_CFGWRITE_FAILED

NeedsRetry(nd) == nd.nvs_status \in {"Timeout", "Failed"}

\* the condition under which persist_selected goes on to ask for confirmation
CommitGuard(nd) ==
    /\ nd.interview_complete
    /\ (nd.calculated_crc # nd.reported_crc \/ nd.reported_crc = 65535)

C34_IntroIdIsPartAId ==
    (/\ last.op = "frame" /\ InIntroRange(last.msg) /\ Len(last.msg.data) >= 5
     /\ pc # "crashed"
     /\ ~last.was.complete /\ last.was.cnt # 0
     /\ ~IsPartB(last.msg) /\ SubIndex(last.msg) < 8) =>
        /\ SubIndex(last.msg) \in DOMAIN nodes[last.node].subs
        /\ nodes[last.node].subs[SubIndex(last.msg)].intro_id = last.msg.id

(***************************************************************************)
(* The interview of one well-behaved node                                  *)
(***************************************************************************)
\* the frames of a node that declares n submodules, in the order it sends
\* them: the identity frame, then Part A and Part B of each index
InterviewFrame(n, k) ==
    IF k = 1 THEN Msg(1792, N1Bytes \o <<n, 18, 52, 0>>)
    ELSE LET i == (k - 2) \div 2 IN
         IF k % 2 = 0 THEN Msg(1793 + i, N1Bytes \o <<i, 10 + i, 11, 12>>)
         ELSE Msg(1793 + i, N1Bytes \o <<128 + i, 5, 16 + i, 136>>)

InterviewFrames(n) == {InterviewFrame(n, k) : k \in 1..(2 * n + 1)}

\* the number of submodules declared by the node on the bus
Declared == (Cardinality(bus) - 1) \div 2

\* the program before run(), with one node of 1 to 8 submodules on the bus
InitInterview ==
    /\ nodes = <<>>
    /\ q = <<>>
    /\ pc = "start"
    /\ now = 0
    /\ interaction_active = FALSE
    /\ bus \in {InterviewFrames(n) : n \in 1..8}
    /\ nrecv = 0
    /\ last = [op |-> "init", node |-> -1, msg |-> NoMsg, asked |-> FALSE,
               confirm |-> FALSE,
               was |-> WasOf(<<>>, -1), again |-> FALSE]
    /\ out = <<>>
    /\ discRun = 0
    /\ CrcIdle

\* _reader_loop with the node's next frame: the node sends it once the
\* previous one has been taken off the queue, which is the turn of the loop
\* that answers it
NodeSends ==
    /\ pc \in {"pass", "drain"}
    /\ q = <<>>
    /\ nrecv < 2 * Declared + 1
    /\ q' = Enqueue(q, InterviewFrame(Declared, nrecv + 1))
    /\ nrecv' = nrecv + 1
    /\ UNCHANGED crcvars
    /\ UNCHANGED <<nodes, pc, now, interaction_active, bus, last, out, discRun>>

\* the main loop with no command key pressed
NextInterview ==
    \/ Start
    \/ NodeSends
    \/ Sweep
    \/ ProcessFrame
    \/ NoKey

\* the while loop of _process_queue keeps taking frames off a non-empty
\* queue: weak fairness of ProcessFrame, which is enabled exactly when the
\* loop is draining a non-empty queue, written out
DrainFairness ==
    \/ []<>(~(pc = "drain" /\ q # <<>>))
    \/ []<><<ProcessFrame>>_vars

\* the reader thread and the main loop both keep running
SpecInterview ==
    /\ InitInterview
    /\ [][NextInterview]_vars
    /\ WF_vars(Start)
    /\ WF_vars(NodeSends)
    /\ WF_vars(Sweep)
    /\ WF_vars(NoKey)
    /\ DrainFairness

\* the node under interview
InterviewId == U32BE(N1Bytes)

\* both parts of every index below n are on record as the node sent them
AllPartsRecorded(nd, n) ==
    \A i \in 0..(n - 1) :
        /\ i \in DOMAIN nd.subs
        /\ nd.subs[i].cfg = [some |-> TRUE, bytes |-> <<10 + i, 11, 12>>]
        /\ nd.subs[i].telemetry = [some |-> TRUE, id |-> 5 * 256 + 16 + i, dlc |-> 8,
                                   save |-> TRUE]

\* C35: for a node declaring n submodules (1 <= n <= 8) that sends its
\* identity frame and then Part A and Part B of each index in increasing
\* order, each after the previous one was answered: every frame processed is
\* answered by exactly one acknowledgement for the node, the completing Part B
\* included; the node is complete only when all 2n+1 frames have been
\* processed (hence 2n+1 acknowledgements sent), and then every index below n
\* has both parts recorded; and the interview eventually is complete.
C35_InterviewTerminates ==
    /\ [](IsCompleteIn(nodes, InterviewId) =>
            /\ nrecv = 2 * Declared + 1 /\ q = <<>>
            /\ nodes[InterviewId].sub_mod_cnt = Declared
            /\ AllPartsRecorded(nodes[InterviewId], Declared))
    /\ [][ProcessedStep =>
            /\ out' = <<[id |-> 1024, data |-> N1Bytes]>>
            /\ pc' = "drain"
            /\ nodes'[InterviewId].interview_complete <=> (nrecv = 2 * Declared + 1)]_vars
    /\ <>IsCompleteIn(nodes, InterviewId)

\* the interview of a node with 8 submodules is complete after its 17 frames
C35_Witness ==
    /\ IsCompleteIn(nodes, InterviewId)
    /\ Declared = 8
    /\ nrecv = 17
    /\ nodes[InterviewId].calculated_crc # 0

\* C36: while sub_mod_cnt of a node is above 8, no step makes the node
\* complete, and every identity-range frame processed for it without fault is
\* answered by one acknowledgement.
C36_CountAboveEightNeverCompletes ==
    [][\A nid \in DOMAIN nodes :
        nodes[nid].sub_mod_cnt > 8 =>
            /\ ~nodes'[nid].interview_complete
            /\ (ProcessedStep /\ InIntroRange(Head(q)) /\ U32BE(Head(q).data) = nid
                  /\ pc' # "crashed") =>
                    out' = <<[id |-> ACK_INTRO_ID, data |-> WireId(Head(q))]>>]_vars

\* Part B of index 7, the highest index stored, has been processed and
\* answered for a node that declared nine submodules
C36_Witness ==
    /\ last.op = "frame" /\ last.msg = FrameB7
    /\ last.was.cnt = 9
    /\ 7 \in DOMAIN nodes[last.node].subs
    /\ nodes[last.node].subs[7].telemetry.some
    /\ ~nodes[last.node].interview_complete
    /\ out # <<>>

\* C37: a frame of 7 bytes or more in the identity range processed for a
\* known node that is not complete and whose sub_mod_cnt is 0 (as discovery
\* and erase leave it) is consumed as an identity frame whatever its byte 4:
\* the record changes exactly by node_type_msg = the frame's id, sub_mod_cnt =
\* byte 4 and reported_crc = byte 5 * 256 + byte 6, and nothing is stored in
\* the submodule map.
C37_FrameAfterResetReadAsIdentity ==
    [][\A nid \in DOMAIN nodes :
        (/\ ProcessedStep /\ InIntroRange(Head(q)) /\ U32BE(Head(q).data) = nid
         /\ Len(Head(q).data) >= 7
         /\ ~nodes[nid].interview_complete /\ nodes[nid].sub_mod_cnt = 0) =>
            nodes'[nid] = [nodes[nid] EXCEPT !.node_type_msg = Head(q).id,
                                             !.sub_mod_cnt = Head(q).data[5],
                                             !.reported_crc = Head(q).data[6] * 256
                                                              + Head(q).data[7]]]_vars

\* a Part B frame processed after an erase has set the count of the node to
\* its index/part byte and stored no telemetry
C37_Witness ==
    /\ last.op = "frame" /\ InIntroRange(last.msg) /\ IsPartB(last.msg)
    /\ last.was.known /\ last.was.cnt = 0 /\ last.was.status = "Erasing"
    /\ nodes[last.node].sub_mod_cnt = last.msg.data[5]
    /\ nodes[last.node].sub_mod_cnt >= 128
    /\ nodes[last.node].subs = <<>>

\* the interview fields of a record
InterviewPart(nd) ==
    <<nd.sub_mod_cnt, nd.reported_crc, nd.subs, nd.calculated_crc, nd.interview_complete>>

\* the provisioning fields of a record
ProvisioningPart(nd) == <<nd.nvs_status, nd.nvs_timestamp>>

\* C38: processing a frame in the identity range changes nvs_status and
\* nvs_timestamp of no node of the registry; processing a write-config-ack or
\* write-config-failed frame, and the timeout sweep, change sub_mod_cnt,
\* reported_crc, subs, calculated_crc and interview_complete of no node.
C38_InterviewAndProvisioningIndependent ==
    [][\A nid \in DOMAIN nodes :
        /\ (ProcessedStep /\ InIntroRange(Head(q))) =>
              ProvisioningPart(nodes'[nid]) = ProvisioningPart(nodes[nid])
        /\ (\/ ProcessedStep /\ Head(q).id \in {DATA_CONFIG_CRC_ID, DATA_CFGWRITE_FAILED}
            \/ SweepStep) =>
              InterviewPart(nodes'[nid]) = InterviewPart(nodes[nid])]_vars

\* a write-config-ack has moved a complete node to Success and left its
\* interview as it was
C38_Witness ==
    /\ last.op = "frame" /\ last.msg.id = DATA_CONFIG_CRC_ID
    /\ last.was.known /\ last.was.complete
    /\ nodes[last.node].nvs_status = "Success"
    /\ nodes[last.node].interview_complete
    /\ nodes[last.node].subs # <<>>

\* C39: when the loop processes, right after a frame of the identity range
\* that it handled in the submodule branch without completing the node, the
\* same frame once more, the registry stays exactly as the first processing
\* left it and one more acknowledgement is sent.
C39_RetransmissionIdempotent ==
    [][(/\ ProcessedStep
        /\ last.op = "frame" /\ last.msg = Head(q) /\ InIntroRange(Head(q))
        /\ last.was.cnt # 0 /\ ~last.was.complete
        /\ ~IsCompleteIn(nodes, last.node)) =>
            /\ nodes' = nodes
            /\ out' = <<[id |-> ACK_INTRO_ID, data |-> WireId(Head(q))]>>
            /\ pc' = "drain"]_vars

\* a Part A frame has been processed twice in a row for an interviewing node
\* and its config bytes are on record
C39_Witness ==
    /\ last.op = "frame" /\ last.again
    /\ InIntroRange(last.msg) /\ ~IsPartB(last.msg)
    /\ last.was.cnt # 0 /\ ~last.was.complete
    /\ SubIndex(last.msg) \in DOMAIN nodes[last.node].subs
    /\ nodes[last.node].subs[SubIndex(last.msg)].cfg.some
    /\ out # <<>>

====
